---------------------------- MODULE Spec2Model ----------------------------
(***************************************************************************)
(* A model of lenstools.constraints: the Analysis base class (the training *)
(* set), FisherAnalysis (finite-difference derivatives, fit, Fisher        *)
(* matrix) and LikelihoodAnalysis (interpolator bank, chunked chi2).       *)
(*                                                                         *)
(* One instance is modelled.  Every method call is one action that records *)
(* its outcome in ret; a chi2 call is split into its dispatch, one step    *)
(* per chunk and its return, because a pool may evaluate the chunks in any *)
(* order.  numpy arrays are values: a parameter vector is a sequence, a    *)
(* feature is a record [shape, data] with data in row-major order.  Reals  *)
(* are exact rationals <<num, den>>.                                       *)
(***************************************************************************)
EXTENDS Integers, Sequences, FiniteSets, TLC

(***************************************************************************)
(* Bounds of the model.                                                    *)
(***************************************************************************)
\* add_model is not called once the parameter set holds this many records
MaxModels == 3
\* split_chunks is at most this
MaxChunks == 4

(***************************************************************************)
(* Python's None and unset attributes.                                     *)
(***************************************************************************)
None == [some |-> FALSE]
Some(x) == [some |-> TRUE, v |-> x]
IsNone(x) == ~x.some

(***************************************************************************)
(* Generic sequence helpers.                                               *)
(***************************************************************************)
Range(s) == {s[i] : i \in DOMAIN s}

\* a function over 1..n as an explicit tuple (evaluated once, not at each use)
Tup(f) == f \o <<>>

RECURSIVE SeqSum(_)
SeqSum(s) == IF s = <<>> THEN 0 ELSE Head(s) + SeqSum(Tail(s))

RECURSIVE SeqProd(_)
SeqProd(s) == IF s = <<>> THEN 1 ELSE Head(s) * SeqProd(Tail(s))

RECURSIVE Flatten(_)
Flatten(ss) == IF ss = <<>> THEN <<>> ELSE Head(ss) \o Flatten(Tail(ss))

(***************************************************************************)
(* numpy arrays.  Arr(shape, data) is an array of the given shape.         *)
(***************************************************************************)
Arr(shape, data) == [shape |-> shape, data |-> data]
Vec(data) == Arr(<<Len(data)>>, data)

\* shape of the stacked training set: (number of models,) + feature shape
TrainingShape(ts) == <<Len(ts)>> \o ts[1].shape
\* self.training_set.shape[1:]
FeatureShape(ts) == ts[1].shape

(***************************************************************************)
(* Inputs.  [0,0], [1,0], [0,1] with the features [1,2], [3,2], [1,5] are  *)
(* the example design of the documentation.  Relative to [0,0], [2,0]      *)
(* varies parameter 0 a second time and [1,1] varies two parameters at     *)
(* once; [0] has the wrong length once a 2-parameter model is in.          *)
(* Features have one axis of 2 bins, one axis of 1 bin (the wrong shape    *)
(* beside the former) or two axes.                                         *)
(***************************************************************************)
ParamInputs == { <<0,0>>, <<1,0>>, <<0,1>>, <<2,0>>, <<1,1>>, <<0>> }

FeatInputs == { Vec(<<1,2>>), Vec(<<3,2>>), Vec(<<1,5>>), Vec(<<1>>),
                Arr(<<1,2>>, <<1,2>>) }

\* Seeds handed to the constructor: arrays whose first axis is the model
ExampleParams == <<<<0,0>>, <<1,0>>, <<0,1>>>>
ExampleFeatures == <<Vec(<<1,2>>), Vec(<<3,2>>), Vec(<<1,5>>)>>

SeedParams == { <<<<0,0>>>>, <<<<0,0>>, <<1,0>>>>, ExampleParams }

SeedFeatures == { <<Vec(<<1,2>>)>>, ExampleFeatures, <<Arr(<<1,2>>, <<1,2>>)>> }

\* The Fisher and likelihood specifications feed one-axis features only:
\* the linear algebra of features with more axes is not modelled
FisherParamInputs == { <<0,0>>, <<2,0>>, <<1,1>> }
FisherFeatInputs == { Vec(<<1,2>>), Vec(<<3,2>>) }

Classes == {"Analysis", "Fisher", "Likelihood"}

VARIABLES
    cls,            \* class of the instance, "none" before construction
    seed,           \* what the constructor was given
    parameter_set,  \* self.parameter_set: None or the sequence of rows
    training_set,   \* self.training_set: None or the sequence of features
    fiducial,       \* FisherAnalysis._fiducial
    derivatives,    \* self.derivatives: unset (None) or the rows
    varied_list,    \* self._varied_list: unset (None) or the list
    num_bins,       \* LikelihoodAnalysis._num_bins: unset (None) or the count
    interpolator,   \* self._interpolator: unset (None) or the bank
    call,           \* the chi2 call in progress, None when there is none
    ret,            \* outcome of the last call
    heap,           \* the array objects: heap[r] is the content of object r
    instances       \* two further instances, their attributes by reference

vars == <<cls, seed, parameter_set, training_set, fiducial, derivatives,
          varied_list, num_bins, interpolator, call, ret, heap, instances>>

baseVars == <<cls, seed, parameter_set, training_set>>
fisherVars == <<fiducial, derivatives, varied_list>>
likelihoodVars == <<num_bins, interpolator, call>>
instanceVars == <<heap, instances>>

Raise(op, err) == [op |-> op, outcome |-> err]
Ok(op, value) == [op |-> op, outcome |-> "ok", value |-> value]

(***************************************************************************)
(* Analysis.__init__                                                       *)
(***************************************************************************)
\* the class attribute _analysis_type, None in the base class
AnalysisType(c) == IF c = "Analysis" THEN None ELSE Some(c)

\* the error __init__ raises, or "ok"
InitOutcome(c, ps, ts) ==
    IF IsNone(AnalysisType(c)) THEN "AssertionError"
    ELSE IF ps.some /\ ts.some /\ Len(ps.v) # Len(ts.v) THEN "AssertionError"
    ELSE "ok"

SeedKind(ps, ts) ==
    IF ps.some /\ ts.some THEN "pair"
    ELSE IF ps.some THEN "parameters_only"
    ELSE IF ts.some THEN "features_only"
    ELSE "empty"

\* shape[0] of a seed, 0 for None
SeedLength(x) == IF x.some THEN Len(x.v) ELSE 0

Construct(c, ps, ts) ==
    /\ cls = "none"
    /\ IF InitOutcome(c, ps, ts) = "ok"
       THEN /\ cls' = c
            /\ seed' = SeedKind(ps, ts)
            /\ parameter_set' = ps
            /\ training_set' = ts
       ELSE UNCHANGED <<cls, seed, parameter_set, training_set>>
    /\ ret' = [op |-> "__init__", outcome |-> InitOutcome(c, ps, ts), class |-> c,
               given |-> SeedKind(ps, ts),
               lengths |-> <<SeedLength(ps), SeedLength(ts)>>]
    /\ UNCHANGED <<fisherVars, likelihoodVars>>
    /\ UNCHANGED instanceVars

(***************************************************************************)
(* Analysis.add_model                                                      *)
(***************************************************************************)
\* np.vstack((training_set, feature)): both are made at least 2-d and then
\* concatenated along axis 0, which needs arrays of the same rank
VStackFeature(ts, feature) ==
    IF Len(TrainingShape(ts)) = (IF Len(feature.shape) < 2 THEN 2 ELSE Len(feature.shape))
    THEN Some(Append(ts, feature))
    ELSE None

\* add_model stacking the parameters before it checks the feature
AddModelResult_StackFirst(ps, ts, parameters, feature) ==
    IF IsNone(ps)
    THEN IF ts.some
         THEN [ps |-> ps, ts |-> ts, outcome |-> "AssertionError"]
         ELSE [ps |-> Some(<<parameters>>), ts |-> Some(<<feature>>), outcome |-> "ok"]
    ELSE IF Len(parameters) # Len(ps.v[1])
         THEN [ps |-> ps, ts |-> ts, outcome |-> "AssertionError"]
    ELSE IF IsNone(ts)
         THEN [ps |-> ps, ts |-> ts, outcome |-> "AttributeError"]
    ELSE IF feature.shape # FeatureShape(ts.v)
         THEN [ps |-> Some(Append(ps.v, parameters)), ts |-> ts,
               outcome |-> "AssertionError"]
    ELSE LET stackedF == VStackFeature(ts.v, feature)
         IN IF stackedF.some
            THEN [ps |-> Some(Append(ps.v, parameters)), ts |-> stackedF, outcome |-> "ok"]
            ELSE [ps |-> Some(Append(ps.v, parameters)), ts |-> ts,
                  outcome |-> "ValueError"]

\* the state add_model leaves and the error it raises ("ok" when none)
AddModelResult(ps, ts, parameters, feature) ==
    IF IsNone(ps)
    THEN IF ts.some
         THEN [ps |-> ps, ts |-> ts, outcome |-> "AssertionError"]
         ELSE [ps |-> Some(<<parameters>>), ts |-> Some(<<feature>>), outcome |-> "ok"]
    ELSE IF Len(parameters) # Len(ps.v[1])
         THEN [ps |-> ps, ts |-> ts, outcome |-> "AssertionError"]
    ELSE IF IsNone(ts)
         THEN [ps |-> ps, ts |-> ts, outcome |-> "AttributeError"]
    ELSE IF feature.shape # FeatureShape(ts.v)
         THEN [ps |-> ps, ts |-> ts, outcome |-> "AssertionError"]
    ELSE LET stackedP == Some(Append(ps.v, parameters))
             stackedF == VStackFeature(ts.v, feature)
         IN IF stackedF.some
            THEN [ps |-> stackedP, ts |-> stackedF, outcome |-> "ok"]
            ELSE [ps |-> stackedP, ts |-> ts, outcome |-> "ValueError"]

NumModels == IF parameter_set.some THEN Len(parameter_set.v) ELSE 0

AddModel(parameters, feature) ==
    /\ cls # "none"
    /\ IsNone(call)
    /\ NumModels < MaxModels
    /\ \E r \in {AddModelResult(parameter_set, training_set, parameters, feature)} :
          /\ parameter_set' = r.ps
          /\ training_set' = r.ts
          /\ ret' = [op |-> "add_model", outcome |-> r.outcome,
                     parameters |-> parameters, feature |-> feature]
    /\ UNCHANGED <<cls, seed>>
    /\ UNCHANGED <<fisherVars, likelihoodVars>>
    /\ UNCHANGED instanceVars

(***************************************************************************)
(* Exact rational arithmetic: <<n, d>> with d > 0 and gcd(n, d) = 1.       *)
(***************************************************************************)
Abs(i) == IF i < 0 THEN -i ELSE i

RECURSIVE Gcd(_, _)
Gcd(a, b) == IF b = 0 THEN a ELSE Gcd(b, a % b)

Rat(n, d) ==
    LET g == Gcd(Abs(n), Abs(d))
        s == IF d < 0 THEN -1 ELSE 1
    IN <<(s * n) \div g, (s * d) \div g>>

R(i) == <<i, 1>>
RAdd(x, y) == Rat(x[1] * y[2] + y[1] * x[2], x[2] * y[2])
RSub(x, y) == Rat(x[1] * y[2] - y[1] * x[2], x[2] * y[2])
RMul(x, y) == Rat(x[1] * y[1], x[2] * y[2])
RDiv(x, y) == Rat(x[1] * y[2], x[2] * y[1])
RNeg(x) == <<-x[1], x[2]>>

RECURSIVE RSum(_)
RSum(s) == IF s = <<>> THEN R(0) ELSE RAdd(Head(s), RSum(Tail(s)))

RVec(v) == Tup([i \in DOMAIN v |-> R(v[i])])

(***************************************************************************)
(* Python indexing: a negative index counts from the end.                  *)
(***************************************************************************)
PyIndex(i, n) == IF i < 0 THEN i + n ELSE i
PyIndexOk(i, n) == PyIndex(i, n) >= 0 /\ PyIndex(i, n) < n

(***************************************************************************)
(* FisherAnalysis.set_fiducial                                             *)
(***************************************************************************)
SetFiducialOutcome(ps, n) ==
    IF IsNone(ps) THEN "AttributeError"
    ELSE IF ~(n < Len(ps.v)) THEN "AssertionError"
    ELSE "ok"

SetFiducial(n) ==
    /\ cls = "Fisher"
    /\ fiducial' = IF SetFiducialOutcome(parameter_set, n) = "ok" THEN n ELSE fiducial
    /\ ret' = [op |-> "set_fiducial", outcome |-> SetFiducialOutcome(parameter_set, n),
               n |-> n]
    /\ UNCHANGED <<baseVars, derivatives, varied_list, likelihoodVars>>
    /\ UNCHANGED instanceVars

(***************************************************************************)
(* FisherAnalysis.compute_derivatives                                      *)
(***************************************************************************)
\* range(n) with the fiducial removed (list.remove raises ValueError when
\* the value is not in the list)
DerivativeIndices(n, fid) ==
    IF fid \in 0..(n-1)
    THEN Some(Tup([k \in 1..(n-1) |-> IF k - 1 < fid THEN k - 1 ELSE k]))
    ELSE None

\* comparison = non_fiducial_parameters[n] == self.parameter_set[fiducial]
Comparison(p, pfid) == Tup([i \in DOMAIN p |-> p[i] = pfid[i]])
ComparisonSum(c) == Cardinality({i \in DOMAIN c : c[i]})
\* np.where(comparison==False)[0][0], as an index from 0
VariedParameterIndex(c) ==
    (CHOOSE i \in DOMAIN c : ~c[i] /\ \A j \in DOMAIN c : ~c[j] => i <= j) - 1

\* the finite difference with the product in place of the quotient
DerivativeRow_Product(feature, ffid, p, pfid, j) ==
    Tup([b \in DOMAIN feature.data |->
            RMul(R(feature.data[b] - ffid.data[b]), R(p[j+1] - pfid[j+1]))])

\* the finite difference of line 214
DerivativeRow(feature, ffid, p, pfid, j) ==
    Tup([b \in DOMAIN feature.data |->
            RDiv(R(feature.data[b] - ffid.data[b]), R(p[j+1] - pfid[j+1]))])

\* the loop of lines 202-214 from position k on; varied is _varied_list
RECURSIVE DerivativeLoop(_, _, _, _, _, _, _)
DerivativeLoop(ps, ts, fid, idx, k, varied, rows) ==
    IF k > Len(idx)
    THEN [outcome |-> "ok", line |-> 219, varied |-> varied, rows |-> rows]
    ELSE LET p == ps[idx[k] + 1]
             pfid == ps[fid + 1]
             c == Comparison(p, pfid)
         IN IF ComparisonSum(c) # Len(c) - 1
            THEN [outcome |-> "AssertionError", line |-> 206, varied |-> varied,
                  rows |-> rows]
            ELSE LET j == VariedParameterIndex(c)
                 IN IF j \in Range(varied)
                    THEN [outcome |-> "AssertionError", line |-> 210,
                          varied |-> varied, rows |-> rows]
                    ELSE IF ~(fid < Len(ts))
                    THEN [outcome |-> "IndexError", line |-> 214,
                          varied |-> Append(varied, j), rows |-> rows]
                    ELSE DerivativeLoop(ps, ts, fid, idx, k + 1, Append(varied, j),
                            Append(rows, DerivativeRow(ts[idx[k] + 1], ts[fid + 1],
                                                       p, pfid, j)))

\* what compute_derivatives does to (_varied_list, derivatives) held as
\* (vl, dv): the outcome, the line that raised, and the two attributes after
ComputeDerivativesResult(ps, ts, fid, vl, dv) ==
    IF IsNone(ps)
    THEN [outcome |-> "AttributeError", line |-> 188, varied_list |-> vl, derivatives |-> dv]
    ELSE IF ~(Len(ps.v) > 1)
    THEN [outcome |-> "AssertionError", line |-> 188, varied_list |-> vl, derivatives |-> dv]
    ELSE LET idx == DerivativeIndices(Len(ps.v), fid)
         IN IF IsNone(idx)
            THEN [outcome |-> "ValueError", line |-> 195, varied_list |-> Some(<<>>),
                  derivatives |-> dv]
            ELSE IF IsNone(ts)
            THEN [outcome |-> "TypeError", line |-> 196, varied_list |-> Some(<<>>),
                  derivatives |-> dv]
            ELSE IF \E k \in DOMAIN idx.v : ~(idx.v[k] < Len(ts.v))
            THEN [outcome |-> "IndexError", line |-> 196, varied_list |-> Some(<<>>),
                  derivatives |-> dv]
            ELSE LET l == DerivativeLoop(ps.v, ts.v, fid, idx.v, 1, <<>>, <<>>)
                 IN [outcome |-> l.outcome, line |-> l.line,
                     varied_list |-> Some(l.varied),
                     derivatives |-> IF l.outcome = "ok" THEN Some(l.rows) ELSE dv]

ComputeDerivatives ==
    /\ cls = "Fisher"
    /\ \E r \in {ComputeDerivativesResult(parameter_set, training_set, fiducial,
                                         varied_list, derivatives)} :
          /\ varied_list' = r.varied_list
          /\ derivatives' = r.derivatives
          /\ ret' = IF r.outcome = "ok"
                    THEN Ok("compute_derivatives", r.derivatives.v)
                    ELSE [op |-> "compute_derivatives", outcome |-> r.outcome,
                          line |-> r.line]
    /\ UNCHANGED <<baseVars, fiducial, likelihoodVars>>
    /\ UNCHANGED instanceVars

(***************************************************************************)
(* FisherAnalysis.get_varied                                               *)
(***************************************************************************)
GetVaried ==
    /\ cls = "Fisher"
    /\ ret' = IF derivatives.some THEN Ok("get_varied", varied_list.v)
              ELSE Raise("get_varied", "AssertionError")
    /\ UNCHANGED <<baseVars, fisherVars, likelihoodVars>>
    /\ UNCHANGED instanceVars

(***************************************************************************)
(* Linear algebra over the rationals.  A matrix is a sequence of rows.     *)
(* numpy.linalg.solve and inv raise LinAlgError on a singular matrix.      *)
(***************************************************************************)
RemoveAt(s, i) == Tup([k \in 1..(Len(s) - 1) |-> IF k < i THEN s[k] ELSE s[k + 1]])

NumRows(m) == Len(m)
NumCols(m) == IF m = <<>> THEN 0 ELSE Len(m[1])

Transpose(m, ncols) == Tup([j \in 1..ncols |-> Tup([i \in 1..Len(m) |-> m[i][j]])])

Dot(x, y) == RSum(Tup([i \in DOMAIN x |-> RMul(x[i], y[i])]))

\* np.dot of an (n x k) and a (k x m) matrix, m given
MatMul(a, b, m) ==
    Tup([i \in 1..Len(a) |->
            Tup([j \in 1..m |-> Dot(a[i], Tup([k \in DOMAIN b |-> b[k][j]]))])])

MatVec(a, x) == Tup([i \in 1..Len(a) |-> Dot(a[i], x)])

RECURSIVE Det(_)
Det(m) ==
    IF Len(m) = 0 THEN R(1)
    ELSE IF Len(m) = 1 THEN m[1][1]
    ELSE RSum(Tup([j \in 1..Len(m) |->
            RMul(RMul(IF j % 2 = 1 THEN R(1) ELSE R(-1), m[1][j]),
                 Det(Tup([i \in 1..(Len(m) - 1) |-> RemoveAt(m[i + 1], j)])))]))

\* solve(a, b) for a square and b with ncols columns, by Cramer's rule
Solve(a, b, ncols) ==
    LET d == Det(a)
    IN IF d[1] = 0 THEN None
       ELSE Some(Tup([i \in 1..Len(a) |-> Tup([c \in 1..ncols |->
              RDiv(Det(Tup([r \in 1..Len(a) |->
                        Tup([k \in 1..Len(a) |-> IF k = i THEN b[r][c] ELSE a[r][k]])])),
                   d)])]))

Identity(n) == Tup([i \in 1..n |-> Tup([j \in 1..n |-> IF i = j THEN R(1) ELSE R(0)])])
Inv(a) == Solve(a, Identity(Len(a)), Len(a))

\* a two-axis array as a matrix
MatOf(arr) ==
    Tup([i \in 1..arr.shape[1] |-> Tup([j \in 1..arr.shape[2] |->
        R(arr.data[(i - 1) * arr.shape[2] + j])])])

\* numpy.linalg.inv of an array: None (LinAlgError) unless it is a square
\* two-axis array with an inverse
ArrayInv(arr) ==
    IF Len(arr.shape) # 2 \/ arr.shape[1] # arr.shape[2] THEN None
    ELSE Inv(MatOf(arr))

\* x + y for one-axis arrays, with numpy's broadcasting of a length of 1
BroadcastAdd(x, y) ==
    IF Len(x) = Len(y) THEN Some(Tup([i \in DOMAIN x |-> RAdd(x[i], y[i])]))
    ELSE IF Len(x) = 1 THEN Some(Tup([i \in DOMAIN y |-> RAdd(x[1], y[i])]))
    ELSE IF Len(y) = 1 THEN Some(Tup([i \in DOMAIN x |-> RAdd(x[i], y[1])]))
    ELSE None

(***************************************************************************)
(* FisherAnalysis.fit and fisher_matrix                                    *)
(***************************************************************************)
\* the shape test of lines 251, 291 and 312
FisherCovarianceShapeOk(covshape, featshape) ==
    covshape = featshape \o featshape \/ covshape = featshape

\* Y with the full covariance left out of the solve
FisherY_NoSolve(cov, featshape, dv) ==
    LET a == Len(dv[1])
        dT == Transpose(dv, a)
    IN IF cov.shape = featshape \o featshape
       THEN Some(dT)
       ELSE Some(Tup([i \in 1..a |-> Tup([k \in 1..Len(dv) |->
                    RMul(RDiv(R(1), R(cov.data[i])), dT[i][k])])]))

\* Y of lines 258-261 and 298-301 for derivatives dv (r x a): an (a x r)
\* matrix, or None when solve raises
FisherY(cov, featshape, dv) ==
    LET a == Len(dv[1])
        dT == Transpose(dv, a)
    IN IF cov.shape = featshape \o featshape
       THEN Solve(MatOf(cov), dT, Len(dv))
       ELSE Some(Tup([i \in 1..a |-> Tup([k \in 1..Len(dv) |->
                    RMul(RDiv(R(1), R(cov.data[i])), dT[i][k])])]))

\* lines 257-270, with the derivatives dv and the list vl in place
FitValue(ps, ts, fid, vl, dv, obs, cov) ==
    LET y == FisherY(cov, obs.shape, dv)
    IN IF IsNone(y) THEN [outcome |-> "LinAlgError", line |-> 259]
       ELSE LET r == Len(dv)
                xy == MatMul(dv, y.v, r)
                m == Solve(xy, Transpose(y.v, r), Len(y.v))
            IN IF IsNone(m) THEN [outcome |-> "LinAlgError", line |-> 264]
               ELSE IF ~PyIndexOk(fid, Len(ts))
               THEN [outcome |-> "IndexError", line |-> 267]
               ELSE LET ffid == ts[PyIndex(fid, Len(ts)) + 1]
                        dP == MatVec(m.v, Tup([b \in DOMAIN obs.data |->
                                                 R(obs.data[b] - ffid.data[b])]))
                        pfid == ps[PyIndex(fid, Len(ps)) + 1]
                        best == BroadcastAdd(Tup([k \in DOMAIN vl |-> R(pfid[vl[k] + 1])]),
                                             dP)
                    IN IF IsNone(best) THEN [outcome |-> "ValueError", line |-> 270]
                       ELSE [outcome |-> "ok", line |-> 270, value |-> best.v]

\* fit: the outcome, the line that raised, the two cached attributes after
FitResult(ps, ts, fid, vl, dv, obs, cov) ==
    LET same(o, l) == [outcome |-> o, line |-> l, varied_list |-> vl, derivatives |-> dv]
    IN IF IsNone(cov) THEN same("AssertionError", 247)
       ELSE IF IsNone(ts) THEN same("AttributeError", 250)
       ELSE IF obs.shape # FeatureShape(ts.v) THEN same("AssertionError", 250)
       ELSE IF ~FisherCovarianceShapeOk(cov.v.shape, obs.shape)
       THEN same("AssertionError", 251)
       ELSE LET c == IF dv.some
                     THEN [outcome |-> "ok", line |-> 254, varied_list |-> vl,
                           derivatives |-> dv]
                     ELSE ComputeDerivativesResult(ps, ts, fid, vl, dv)
            IN IF c.outcome # "ok" THEN c
               ELSE FitValue(ps.v, ts.v, fid, c.varied_list.v, c.derivatives.v,
                             obs, cov.v)
                    @@ [varied_list |-> c.varied_list, derivatives |-> c.derivatives]

Fit(obs, cov) ==
    /\ cls = "Fisher"
    /\ \E r \in {FitResult(parameter_set, training_set, fiducial, varied_list,
                          derivatives, obs, cov)} :
          /\ varied_list' = r.varied_list
          /\ derivatives' = r.derivatives
          /\ ret' = [op |-> "fit", outcome |-> r.outcome, line |-> r.line,
                     value |-> IF r.outcome = "ok" THEN r.value ELSE <<>>,
                     observed_feature |-> obs, features_covariance |-> cov]
    /\ UNCHANGED <<baseVars, fiducial, likelihoodVars>>
    /\ UNCHANGED instanceVars

\* lines 297-321, with the derivatives dv in place
FisherMatrixValue(featshape, dv, cov, obscov) ==
    LET y == FisherY(cov, featshape, dv)
    IN IF IsNone(y) THEN [outcome |-> "LinAlgError", line |-> 299]
       ELSE LET r == Len(dv)
                a == Len(y.v)
                xy == MatMul(dv, y.v, r)
            IN IF IsNone(obscov) THEN [outcome |-> "ok", line |-> 308, value |-> xy]
               ELSE IF ~FisherCovarianceShapeOk(obscov.v.shape, featshape)
               THEN [outcome |-> "AssertionError", line |-> 312]
               ELSE LET m == Solve(xy, Transpose(y.v, r), a)
                    IN IF IsNone(m) THEN [outcome |-> "LinAlgError", line |-> 314]
                       ELSE LET mT == Transpose(m.v, a)
                                pc == IF obscov.v.shape = featshape \o featshape
                                      THEN MatMul(m.v, MatMul(MatOf(obscov.v), mT, r), r)
                                      ELSE MatMul(Tup([i \in 1..r |-> Tup([b \in 1..a |->
                                                      RMul(m.v[i][b], R(obscov.v.data[b]))])]),
                                                  mT, r)
                                inverse == Inv(pc)
                            IN IF IsNone(inverse)
                               THEN [outcome |-> "LinAlgError", line |-> 321]
                               ELSE [outcome |-> "ok", line |-> 321, value |-> inverse.v]

FisherMatrixResult(ps, ts, fid, vl, dv, cov, obscov) ==
    LET same(o, l) == [outcome |-> o, line |-> l, varied_list |-> vl, derivatives |-> dv]
    IN IF IsNone(cov) THEN same("AssertionError", 290)
       ELSE IF IsNone(ts) THEN same("AttributeError", 291)
       ELSE IF ~FisherCovarianceShapeOk(cov.v.shape, FeatureShape(ts.v))
       THEN same("AssertionError", 291)
       ELSE LET c == IF dv.some
                     THEN [outcome |-> "ok", line |-> 294, varied_list |-> vl,
                           derivatives |-> dv]
                     ELSE ComputeDerivativesResult(ps, ts, fid, vl, dv)
            IN IF c.outcome # "ok" THEN c
               ELSE FisherMatrixValue(FeatureShape(ts.v), c.derivatives.v, cov.v, obscov)
                    @@ [varied_list |-> c.varied_list, derivatives |-> c.derivatives]

FisherMatrix(cov, obscov) ==
    /\ cls = "Fisher"
    /\ \E r \in {FisherMatrixResult(parameter_set, training_set, fiducial, varied_list,
                                   derivatives, cov, obscov)} :
          /\ varied_list' = r.varied_list
          /\ derivatives' = r.derivatives
          /\ ret' = [op |-> "fisher_matrix", outcome |-> r.outcome, line |-> r.line,
                     value |-> IF r.outcome = "ok" THEN r.value ELSE <<>>,
                     simulated_features_covariance |-> cov,
                     observed_features_covariance |-> obscov]
    /\ UNCHANGED <<baseVars, fiducial, likelihoodVars>>
    /\ UNCHANGED instanceVars

\* Covariances for 2-bin features: a diagonal one, full ones (the identity,
\* a general one, a singular one) and two of a wrong shape
DiagCov == Vec(<<1,2>>)
IdentityCov == Arr(<<2,2>>, <<1,0,0,1>>)
FullCov == Arr(<<2,2>>, <<2,1,1,1>>)
SingularCov == Arr(<<2,2>>, <<1,1,1,1>>)
ShortCov == Vec(<<1>>)
WideCov == Arr(<<2,1>>, <<1,1>>)

FitInputs ==
    {<<Vec(<<2,3>>), c>> : c \in {None, Some(DiagCov), Some(FullCov), Some(SingularCov),
                                  Some(ShortCov), Some(WideCov)}}
    \cup {<<Vec(<<2>>), Some(ShortCov)>>}

FisherMatrixInputs ==
    {<<c, None>> : c \in {None, Some(DiagCov), Some(IdentityCov), Some(FullCov),
                          Some(ShortCov), Some(WideCov)}}
    \cup {<<Some(IdentityCov), Some(DiagCov)>>, <<Some(DiagCov), Some(FullCov)>>,
          <<Some(FullCov), Some(WideCov)>>}

(***************************************************************************)
(* LikelihoodAnalysis.train.  The bank holds, for every bin, the arguments *)
(* of the deferred Rbf constructor: the used parameter columns (nodes, one *)
(* tuple per model) and the column of the flattened training set.          *)
(***************************************************************************)
\* self.parameter_set[:,use_parameters] of one row, use given from 0
UsedParameters(row, use) ==
    IF use = "all" THEN row ELSE Tup([k \in DOMAIN use |-> row[PyIndex(use[k], Len(row)) + 1]])

TrainResult(ps, ts, use) ==
    IF IsNone(ps)
    THEN [outcome |-> IF use = "all" THEN "AttributeError" ELSE "TypeError",
          line |-> IF use = "all" THEN 368 ELSE 366]
    ELSE IF use # "all" /\ \E k \in DOMAIN use : ~PyIndexOk(use[k], Len(ps.v[1]))
    THEN [outcome |-> "IndexError", line |-> 366]
    ELSE IF IsNone(ts)
    THEN [outcome |-> "AttributeError", line |-> 371]
    ELSE [outcome |-> "ok", line |-> 381,
          num_bins |-> SeqProd(FeatureShape(ts.v)),
          bank |-> [dim |-> IF use = "all" THEN Len(ps.v[1]) ELSE Len(use),
                    nodes |-> Tup([m \in DOMAIN ps.v |-> UsedParameters(ps.v[m], use)]),
                    values |-> Tup([m \in DOMAIN ts.v |-> ts.v[m].data])]]

Train(use) ==
    /\ cls = "Likelihood"
    /\ IsNone(call)
    /\ \E r \in {TrainResult(parameter_set, training_set, use)} :
          /\ IF r.outcome = "ok"
             THEN num_bins' = Some(r.num_bins) /\ interpolator' = Some(r.bank)
             ELSE UNCHANGED <<num_bins, interpolator>>
          /\ ret' = [op |-> "train", outcome |-> r.outcome, line |-> r.line]
    /\ UNCHANGED <<baseVars, fisherVars, call>>
    /\ UNCHANGED instanceVars

(***************************************************************************)
(* _predict and the deferred interpolators.  scipy's Rbf is outside the    *)
(* repository: it is represented by an interpolator that, like Rbf, is a   *)
(* function of the nodes, the values and the point alone, returns the      *)
(* value of a node at that node, and cannot be built when two nodes        *)
(* coincide (a singular system) or when nodes and values differ in number. *)
(***************************************************************************)
Distance(x, y) == SeqSum(Tup([i \in DOMAIN x |-> Abs(x[i] - y[i])]))

\* the error of interpolator[n]()(*point), "ok" when there is none
RbfOutcome(bank, point) ==
    IF Len(bank.nodes) # Len(bank.values) THEN "ValueError"
    ELSE IF \E i, j \in DOMAIN bank.nodes : i < j /\ bank.nodes[i] = bank.nodes[j]
    THEN "LinAlgError"
    ELSE IF Len(point) # bank.dim THEN "ValueError"
    ELSE "ok"

RbfValue(bank, n, point) ==
    LET near == CHOOSE i \in DOMAIN bank.nodes :
                   \A j \in DOMAIN bank.nodes :
                      \/ Distance(bank.nodes[i], point) < Distance(bank.nodes[j], point)
                      \/ /\ Distance(bank.nodes[i], point) = Distance(bank.nodes[j], point)
                         /\ i <= j
    IN R(bank.values[near][n])

\* Points: a parameter array of one axis (a single point, rows = <<point>>)
\* or of two axes (rows = the points)
Point(v) == [ndim |-> 1, rows |-> <<v>>]
Batch(rows) == [ndim |-> 2, rows |-> rows]

\* _predict(parameters, num_bins, interpolator): one feature per point
PredictFeatures(parameters, nbins, bank) ==
    IF nbins > 0 /\ \E i \in DOMAIN parameters.rows : RbfOutcome(bank, parameters.rows[i]) # "ok"
    THEN [outcome |-> RbfOutcome(bank, parameters.rows[
                         CHOOSE i \in DOMAIN parameters.rows :
                            RbfOutcome(bank, parameters.rows[i]) # "ok"]),
          line |-> IF parameters.ndim = 1 THEN 67 ELSE 74]
    ELSE [outcome |-> "ok", line |-> 76,
          features |-> Tup([i \in DOMAIN parameters.rows |->
                          Tup([n \in 1..nbins |-> RbfValue(bank, n, parameters.rows[i])])])]

(***************************************************************************)
(* LikelihoodAnalysis.predict                                              *)
(***************************************************************************)
PredictResult(ps, ts, nb, bank, parameters) ==
    LET t == IF bank.some
             THEN [outcome |-> "ok", line |-> 394, num_bins |-> nb.v, bank |-> bank.v]
             ELSE TrainResult(ps, ts, "all")
    IN IF t.outcome # "ok"
       THEN [outcome |-> t.outcome, line |-> t.line, num_bins |-> nb, interpolator |-> bank]
       ELSE PredictFeatures(parameters, t.num_bins, t.bank)
            @@ [num_bins |-> Some(t.num_bins), interpolator |-> Some(t.bank)]

Predict(parameters) ==
    /\ cls = "Likelihood"
    /\ IsNone(call)
    /\ \E r \in {PredictResult(parameter_set, training_set, num_bins, interpolator,
                              parameters)} :
          /\ num_bins' = r.num_bins
          /\ interpolator' = r.interpolator
          /\ ret' = [op |-> "predict", outcome |-> r.outcome, line |-> r.line,
                     parameters |-> parameters,
                     value |-> IF r.outcome # "ok" THEN <<>>
                               ELSE IF parameters.ndim = 1
                               THEN Arr(FeatureShape(training_set.v), r.features[1])
                               ELSE Tup([i \in DOMAIN r.features |->
                                       Arr(FeatureShape(training_set.v), r.features[i])])]
    /\ UNCHANGED <<baseVars, fisherVars, call>>
    /\ UNCHANGED instanceVars

(***************************************************************************)
(* The module-level chi2 of one chunk and LikelihoodAnalysis.chi2          *)
(***************************************************************************)
\* the sandwich product of lines 48-50 for one row of model features
SandwichProduct(observed, model, covinv) ==
    LET diff == Tup([b \in DOMAIN model |-> RSub(R(observed.data[b]), model[b])])
        inverse_covariance_dot ==
            Tup([c \in DOMAIN diff |->
                    Dot(diff, Tup([b \in DOMAIN diff |-> covinv[b][c]]))])
    IN RSum(Tup([b \in DOMAIN diff |-> RMul(diff[b], inverse_covariance_dot[b])]))

\* chi2(parameters, **kwargs) on one chunk: a scalar for a one-axis chunk,
\* one value per row otherwise
Chi2Function(chunk, kwargs) ==
    LET f == PredictFeatures(chunk, kwargs.num_bins, kwargs.interpolator)
    IN IF f.outcome # "ok" THEN [outcome |-> f.outcome, line |-> f.line]
       ELSE [outcome |-> "ok", line |-> 50,
             value |-> Tup([i \in DOMAIN f.features |->
                             SandwichProduct(kwargs.observed_feature, f.features[i],
                                             kwargs.inverse_covariance)])]

\* chunks in the opposite order
ParameterChunks_Reversed(parameters, num_points, split_chunks) ==
    IF IsNone(split_chunks) THEN <<parameters>>
    ELSE LET chunk_length == num_points \div split_chunks.v
         IN Tup([n \in 1..split_chunks.v |->
                  LET m == split_chunks.v - n
                      part == SubSeq(IF parameters.ndim = 1 THEN parameters.rows[1]
                                     ELSE parameters.rows,
                                     m * chunk_length + 1, (m + 1) * chunk_length)
                  IN IF parameters.ndim = 1 THEN Point(part) ELSE Batch(part)])

\* lines 444-452: [parameters], or parameters[n*chunk_length:(n+1)*chunk_length]
\* for n in range(split_chunks), a slice along the first axis
ParameterChunks(parameters, num_points, split_chunks) ==
    IF IsNone(split_chunks) THEN <<parameters>>
    ELSE LET chunk_length == num_points \div split_chunks.v
         IN Tup([n \in 1..split_chunks.v |->
                  LET part == SubSeq(IF parameters.ndim = 1 THEN parameters.rows[1]
                                     ELSE parameters.rows,
                                     (n - 1) * chunk_length + 1, n * chunk_length)
                  IN IF parameters.ndim = 1 THEN Point(part) ELSE Batch(part)])

NumPoints(parameters) == IF parameters.ndim = 1 THEN 1 ELSE Len(parameters.rows)

\* the split_chunks test without the assertion of line 450
SplitChunksOutcome_NoDivisibility(num_points, split_chunks) ==
    IF IsNone(split_chunks) THEN [outcome |-> "ok", line |-> 446]
    ELSE IF split_chunks.v > 0 THEN [outcome |-> "ok", line |-> 452]
    ELSE [outcome |-> "ValueError", line |-> 456]

\* the error of the split_chunks test of lines 444-456, "ok" when none
SplitChunksOutcome(num_points, split_chunks) ==
    IF IsNone(split_chunks) THEN [outcome |-> "ok", line |-> 446]
    ELSE IF split_chunks.v > 0
    THEN IF num_points % split_chunks.v = 0 THEN [outcome |-> "ok", line |-> 452]
         ELSE [outcome |-> "AssertionError", line |-> 450]
    ELSE [outcome |-> "ValueError", line |-> 456]

\* the sanity checks of lines 429-432
\* the test of line 432 loosened to the test of lines 251 and 291
Chi2CovarianceShapeOk_AsFisher(covshape, obsshape) ==
    covshape = obsshape \o obsshape \/ covshape = obsshape

Chi2CovarianceShapeOk(covshape, obsshape) == covshape = obsshape \o obsshape

Chi2SanityOutcome(ts, obs, cov) ==
    IF IsNone(obs) THEN [outcome |-> "AssertionError", line |-> 429]
    ELSE IF IsNone(cov) THEN [outcome |-> "AssertionError", line |-> 430]
    ELSE IF IsNone(ts) THEN [outcome |-> "AttributeError", line |-> 431]
    ELSE IF obs.v.shape # FeatureShape(ts.v) THEN [outcome |-> "AssertionError", line |-> 431]
    ELSE IF ~Chi2CovarianceShapeOk(cov.v.shape, obs.v.shape)
    THEN [outcome |-> "AssertionError", line |-> 432]
    ELSE [outcome |-> "ok", line |-> 432]

\* lines 428-465: what the call does before it maps chi2 on the chunks
Chi2Dispatch(ps, ts, nb, bank, parameters, obs, cov, split_chunks) ==
    LET same(o) == o @@ [num_bins |-> nb, interpolator |-> bank]
        sanity == Chi2SanityOutcome(ts, obs, cov)
    IN IF sanity.outcome # "ok" THEN same(sanity)
       ELSE LET t == IF bank.some
                     THEN [outcome |-> "ok", line |-> 435, num_bins |-> nb.v, bank |-> bank.v]
                     ELSE TrainResult(ps, ts, "all")
            IN IF t.outcome # "ok" THEN same([outcome |-> t.outcome, line |-> t.line])
               ELSE LET trained(o) == o @@ [num_bins |-> Some(t.num_bins),
                                            interpolator |-> Some(t.bank)]
                        split == SplitChunksOutcome(NumPoints(parameters), split_chunks)
                        covinv == ArrayInv(cov.v)
                    IN IF split.outcome # "ok" THEN trained(split)
                       ELSE IF IsNone(covinv)
                       THEN trained([outcome |-> "LinAlgError", line |-> 459])
                       ELSE trained([outcome |-> "ok", line |-> 473,
                                parameter_chunks |->
                                    ParameterChunks(parameters, NumPoints(parameters),
                                                    split_chunks),
                                kwargs |-> [num_bins |-> t.num_bins,
                                            interpolator |-> t.bank,
                                            inverse_covariance |-> covinv.v,
                                            observed_feature |-> obs.v]])

Chi2Ret(outcome, line, args, evaluated, value) ==
    [op |-> "chi2", outcome |-> outcome, line |-> line, args |-> args,
     evaluated |-> evaluated, value |-> value]

\* the call up to the dispatch of the chunks
Chi2Call(parameters, obs, cov, split_chunks, pool) ==
    /\ cls = "Likelihood"
    /\ IsNone(call)
    /\ \E d \in {Chi2Dispatch(parameter_set, training_set, num_bins, interpolator,
                             parameters, obs, cov, split_chunks)},
          args \in {[parameters |-> parameters, observed_feature |-> obs,
                     features_covariance |-> cov, split_chunks |-> split_chunks,
                     pool |-> pool]} :
          /\ num_bins' = d.num_bins
          /\ interpolator' = d.interpolator
          /\ IF d.outcome = "ok"
             THEN /\ call' = Some([args |-> args,
                                   num_points |-> NumPoints(parameters),
                                   parameter_chunks |-> d.parameter_chunks,
                                   kwargs |-> d.kwargs,
                                   chi2_list |-> [c \in DOMAIN d.parameter_chunks |-> None]])
                  /\ ret' = [op |-> "chi2", outcome |-> "running", args |-> args]
             ELSE /\ call' = None
                  /\ ret' = Chi2Ret(d.outcome, d.line, args, 0, <<>>)
    /\ UNCHANGED <<baseVars, fisherVars>>
    /\ UNCHANGED instanceVars

Evaluated(c) == {n \in DOMAIN c.chi2_list : c.chi2_list[n].some}

\* one chunk through a chi2 that subtracts in place: the observed feature
\* the chunks share is overwritten with the residual of the chunk's first row
EvalChunk_InPlace(n) ==
    /\ call.some
    /\ n \in DOMAIN call.v.parameter_chunks
    /\ IsNone(call.v.chi2_list[n])
    /\ call.v.args.pool \/ \A m \in 1..(n - 1) : call.v.chi2_list[m].some
    /\ \E r \in {Chi2Function(call.v.parameter_chunks[n], call.v.kwargs)} :
          IF r.outcome = "ok"
          THEN /\ call' = Some([call.v EXCEPT
                        !.chi2_list[n] = Some(r.value),
                        !.kwargs.observed_feature.data =
                            Tup([b \in DOMAIN @ |->
                                   @[b] - RbfValue(call.v.kwargs.interpolator, b,
                                                   call.v.parameter_chunks[n].rows[1])[1]])])
               /\ UNCHANGED ret
          ELSE /\ call' = None
               /\ ret' = Chi2Ret(r.outcome, r.line, call.v.args,
                                 Cardinality(Evaluated(call.v)) + 1, <<>>)
    /\ UNCHANGED <<baseVars, fisherVars, num_bins, interpolator>>
    /\ UNCHANGED instanceVars

\* one chunk through chi2: map takes the chunks in order, a pool in any order
EvalChunk(n) ==
    /\ call.some
    /\ n \in DOMAIN call.v.parameter_chunks
    /\ IsNone(call.v.chi2_list[n])
    /\ call.v.args.pool \/ \A m \in 1..(n - 1) : call.v.chi2_list[m].some
    /\ \E r \in {Chi2Function(call.v.parameter_chunks[n], call.v.kwargs)} :
          IF r.outcome = "ok"
          THEN /\ call' = Some([call.v EXCEPT !.chi2_list[n] = Some(r.value)])
               /\ UNCHANGED ret
          ELSE /\ call' = None
               /\ ret' = Chi2Ret(r.outcome, r.line, call.v.args,
                                 Cardinality(Evaluated(call.v)) + 1, <<>>)
    /\ UNCHANGED <<baseVars, fisherVars, num_bins, interpolator>>
    /\ UNCHANGED instanceVars

\* line 475: np.array(chi2_list).reshape(num_points)
Chi2Return ==
    /\ call.some
    /\ Evaluated(call.v) = DOMAIN call.v.chi2_list
    /\ LET flat == Flatten(Tup([n \in DOMAIN call.v.chi2_list |-> call.v.chi2_list[n].v]))
       IN ret' = IF Len(flat) = call.v.num_points
                 THEN Chi2Ret("ok", 475, call.v.args, Len(call.v.chi2_list), flat)
                 ELSE Chi2Ret("ValueError", 475, call.v.args, Len(call.v.chi2_list), <<>>)
    /\ call' = None
    /\ UNCHANGED <<baseVars, fisherVars, num_bins, interpolator>>
    /\ UNCHANGED instanceVars

\* Inputs of the likelihood specification: 2-parameter models, 2-bin features
LikelihoodParamInputs == { <<0,0>>, <<1,0>> }
LikelihoodFeatInputs == { Vec(<<1,2>>), Vec(<<3,2>>) }
TrainInputs == { "all", <<0>> }
PredictInputs == { Point(<<1,0>>), Batch(<<<<0,1>>, <<1,0>>>>), Point(<<1>>) }

Batch4 == Batch(<< <<0,0>>, <<1,0>>, <<0,1>>, <<1,0>> >>)
Batch2 == Batch(<< <<1,0>>, <<0,1>> >>)
Observed == Vec(<<2,3>>)

\* <<parameters, observed_feature, features_covariance, split_chunks, pool>>
Chi2Inputs ==
    {<<Batch4, Some(Observed), Some(FullCov), k, pl>> :
        k \in {None} \cup {Some(i) : i \in -1..MaxChunks}, pl \in BOOLEAN}
    \cup {<<Batch2, Some(Observed), c, None, FALSE>> :
            c \in {None, Some(DiagCov), Some(SingularCov), Some(ShortCov), Some(WideCov),
                   Some(IdentityCov)}}
    \cup {<<Batch2, o, Some(IdentityCov), Some(2), FALSE>> : o \in {None, Some(Vec(<<2>>))}}
    \cup {<<Point(<<1,0>>), Some(Observed), Some(IdentityCov), k, FALSE>> :
            k \in {None, Some(1)}}

(***************************************************************************)
(* Several instances.  An attribute that holds an array holds a reference  *)
(* r to an array object, whose content is heap[r]; an assignment           *)
(* self.x = y stores the reference of y, and copy(), [np.newaxis,:] of a   *)
(* copy, np.vstack and np.zeros make a new object.  The caller's two seed  *)
(* arrays are the objects 1 and 2.                                         *)
(***************************************************************************)
\* no array object is made once the heap holds this many
MaxObjects == 6

Instances == {1, 2}

SeedHeap == << <<<<0,0>>, <<1,0>>>>, <<Vec(<<1,2>>), Vec(<<3,2>>)>> >>
SeedRefs == { <<None, None>>, <<Some(1), Some(2)>> }

NoInstance ==
    [cls |-> "none", parameter_set |-> None, training_set |-> None, fiducial |-> 0,
     derivatives |-> None, varied_list |-> None, interpolator |-> None,
     likelihood_function |-> "unset"]

\* the array a reference designates, None for None
Deref(h, x) == IF x.some THEN Some(h[x.v]) ELSE None

\* the reference of a new object holding v, and the heap with it
Alloc(h, v) == [ref |-> Len(h) + 1, heap |-> Append(h, v)]

InstanceRet(op, outcome, i) == [op |-> op, outcome |-> outcome, instance |-> i]

\* cls(parameter_set, training_set): lines 101-109, and line 339 for a
\* LikelihoodAnalysis
NewInstance(i, c, ps, ts) ==
    /\ instances[i].cls = "none"
    /\ \E outcome \in {InitOutcome(c, Deref(heap, ps), Deref(heap, ts))} :
          /\ instances' =
                IF outcome = "ok"
                THEN [instances EXCEPT ![i] =
                        [@ EXCEPT !.cls = c, !.parameter_set = ps, !.training_set = ts,
                                  !.likelihood_function =
                                      IF c = "Likelihood" THEN "gaussian_likelihood"
                                      ELSE "unset"]]
                ELSE instances
          /\ ret' = InstanceRet("__init__", outcome, i)
    /\ UNCHANGED <<baseVars, fisherVars, likelihoodVars, heap>>

\* add_model: each of the two attributes is rebound to a new object when
\* its content changes
InstanceAddModel(i, parameters, feature) ==
    /\ instances[i].cls # "none"
    /\ Len(heap) + 2 <= MaxObjects
    /\ \E r \in {AddModelResult(Deref(heap, instances[i].parameter_set),
                               Deref(heap, instances[i].training_set),
                               parameters, feature)} :
       \E p \in {IF r.ps = Deref(heap, instances[i].parameter_set)
                 THEN [ref |-> r.ps, heap |-> heap]
                 ELSE [ref |-> Some(Len(heap) + 1), heap |-> Alloc(heap, r.ps.v).heap]} :
       \E t \in {IF r.ts = Deref(heap, instances[i].training_set)
                 THEN [ref |-> r.ts, heap |-> p.heap]
                 ELSE [ref |-> Some(Len(p.heap) + 1), heap |-> Alloc(p.heap, r.ts.v).heap]} :
          /\ heap' = t.heap
          /\ instances' = [instances EXCEPT ![i] =
                [@ EXCEPT !.parameter_set =
                              IF p.heap = heap THEN instances[i].parameter_set ELSE p.ref,
                          !.training_set =
                              IF t.heap = p.heap THEN instances[i].training_set ELSE t.ref]]
          /\ ret' = InstanceRet("add_model", r.outcome, i)
    /\ UNCHANGED <<baseVars, fisherVars, likelihoodVars>>

InstanceSetFiducial(i, n) ==
    /\ instances[i].cls = "Fisher"
    /\ \E outcome \in {SetFiducialOutcome(Deref(heap, instances[i].parameter_set), n)} :
          /\ instances' = IF outcome = "ok"
                          THEN [instances EXCEPT ![i].fiducial = n]
                          ELSE instances
          /\ ret' = InstanceRet("set_fiducial", outcome, i)
    /\ UNCHANGED <<baseVars, fisherVars, likelihoodVars, heap>>

\* compute_derivatives: the list is the instance's own, the derivatives
\* are a new array (np.zeros, line 199)
InstanceComputeDerivatives(i) ==
    /\ instances[i].cls = "Fisher"
    /\ Len(heap) + 1 <= MaxObjects
    /\ \E r \in {ComputeDerivativesResult(Deref(heap, instances[i].parameter_set),
                                         Deref(heap, instances[i].training_set),
                                         instances[i].fiducial,
                                         instances[i].varied_list,
                                         Deref(heap, instances[i].derivatives))} :
          /\ heap' = IF r.outcome = "ok" THEN Alloc(heap, r.derivatives.v).heap ELSE heap
          /\ instances' = [instances EXCEPT ![i] =
                [@ EXCEPT !.varied_list = r.varied_list,
                          !.derivatives = IF r.outcome = "ok"
                                          THEN Some(Alloc(heap, r.derivatives.v).ref)
                                          ELSE instances[i].derivatives]]
          /\ ret' = InstanceRet("compute_derivatives", r.outcome, i)
    /\ UNCHANGED <<baseVars, fisherVars, likelihoodVars>>

\* train: the deferred interpolators hold views of the two arrays
InstanceTrain(i, use) ==
    /\ instances[i].cls = "Likelihood"
    /\ \E r \in {TrainResult(Deref(heap, instances[i].parameter_set),
                            Deref(heap, instances[i].training_set), use)} :
          /\ instances' =
                IF r.outcome = "ok"
                THEN [instances EXCEPT ![i].interpolator =
                        Some([parameter_set |-> instances[i].parameter_set,
                              training_set |-> instances[i].training_set,
                              use_parameters |-> use])]
                ELSE instances
          /\ ret' = InstanceRet("train", r.outcome, i)
    /\ UNCHANGED <<baseVars, fisherVars, likelihoodVars, heap>>

\* set_likelihood: lines 341-349, function None for the default argument
InstanceSetLikelihood(i, function) ==
    /\ instances[i].cls = "Likelihood"
    /\ instances' = IF function.some
                    THEN [instances EXCEPT ![i].likelihood_function = function.v]
                    ELSE instances
    /\ ret' = InstanceRet("set_likelihood",
                          IF function.some THEN "ok" ELSE "AssertionError", i)
    /\ UNCHANGED <<baseVars, fisherVars, likelihoodVars, heap>>

InstanceParamInputs == { <<0,1>>, <<0>> }
InstanceFeatInputs == { Vec(<<1,5>>) }
InstanceFiducialInputs == { 1, 3 }
LikelihoodFunctionInputs == { None, Some("custom") }

Init ==
    /\ cls = "none"
    /\ seed = "empty"
    /\ parameter_set = None
    /\ training_set = None
    /\ fiducial = 0
    /\ derivatives = None
    /\ varied_list = None
    /\ num_bins = None
    /\ interpolator = None
    /\ call = None
    /\ ret = Ok("none", 0)
    /\ heap = SeedHeap
    /\ instances = [i \in Instances |-> NoInstance]

FiducialInputs == -1..MaxModels

NoneOr(S) == {None} \cup {Some(x) : x \in S}

\* The training set alone, for every class and every seed
NextAnalysis ==
    \/ \E c \in Classes, ps \in NoneOr(SeedParams), ts \in NoneOr(SeedFeatures) :
          Construct(c, ps, ts)
    \/ \E p \in ParamInputs, f \in FeatInputs : AddModel(p, f)

SpecAnalysis == Init /\ [][NextAnalysis]_vars

\* A FisherAnalysis, empty or seeded with the example design
NextFisher ==
    \/ Construct("Fisher", None, None)
    \/ Construct("Fisher", Some(ExampleParams), Some(ExampleFeatures))
    \/ cls = "Fisher" /\ \E p \in FisherParamInputs, f \in FisherFeatInputs : AddModel(p, f)
    \/ \E n \in FiducialInputs : SetFiducial(n)
    \/ ComputeDerivatives
    \/ GetVaried
    \/ \E a \in FitInputs : Fit(a[1], a[2])
    \/ \E a \in FisherMatrixInputs : FisherMatrix(a[1], a[2])

SpecFisher == Init /\ [][NextFisher]_vars

\* A LikelihoodAnalysis, empty or seeded with the example design
NextLikelihood ==
    \/ Construct("Likelihood", None, None)
    \/ Construct("Likelihood", Some(ExampleParams), Some(ExampleFeatures))
    \/ cls = "Likelihood" /\ \E p \in LikelihoodParamInputs, f \in LikelihoodFeatInputs :
                                  AddModel(p, f)
    \/ \E u \in TrainInputs : Train(u)
    \/ \E x \in PredictInputs : Predict(x)
    \/ \E a \in Chi2Inputs : Chi2Call(a[1], a[2], a[3], a[4], a[5])
    \/ \E n \in 1..MaxChunks : EvalChunk(n)
    \/ Chi2Return

SpecLikelihood == Init /\ [][NextLikelihood]_vars

\* Two instances, each empty or seeded with the caller's two arrays
NextInstances ==
    \/ \E i \in Instances, c \in {"Fisher", "Likelihood"}, sd \in SeedRefs :
          NewInstance(i, c, sd[1], sd[2])
    \/ \E i \in Instances, p \in InstanceParamInputs, f \in InstanceFeatInputs :
          InstanceAddModel(i, p, f)
    \/ \E i \in Instances, n \in InstanceFiducialInputs : InstanceSetFiducial(i, n)
    \/ \E i \in Instances : InstanceComputeDerivatives(i)
    \/ \E i \in Instances : InstanceTrain(i, "all")
    \/ \E i \in Instances, fn \in LikelihoodFunctionInputs : InstanceSetLikelihood(i, fn)

SpecInstances == Init /\ [][NextInstances]_vars

\* Both estimators
Next == NextFisher \/ NextLikelihood

Spec == Init /\ [][Next]_vars

(***************************************************************************)
(* Properties of the training set (SpecAnalysis).                          *)
(***************************************************************************)
\* C1: on an instance that started empty or from a seeded pair, the
\* parameter set and the feature set hold the same number of records, every
\* parameter record has the length of the first and every feature record
\* the shape of the first.
C1_RecordsAligned ==
    (cls # "none" /\ seed \in {"empty", "pair"}) =>
        /\ parameter_set.some <=> training_set.some
        /\ parameter_set.some =>
            /\ Len(parameter_set.v) = Len(training_set.v)
            /\ \A i \in DOMAIN parameter_set.v :
                  Len(parameter_set.v[i]) = Len(parameter_set.v[1])
            /\ \A i \in DOMAIN training_set.v :
                  training_set.v[i].shape = training_set.v[1].shape

\* C2: add_model on a non-empty training set with parameters of the wrong
\* length or a feature of the wrong shape raises and leaves the parameter
\* set and the feature set as they were.
C2_MismatchRejectedAtomically ==
    [][ ( /\ ret'.op = "add_model"
          /\ parameter_set.some /\ training_set.some
          /\ \/ Len(ret'.parameters) # Len(parameter_set.v[1])
             \/ ret'.feature.shape # FeatureShape(training_set.v) )
        => ( /\ ret'.outcome # "ok"
             /\ parameter_set' = parameter_set
             /\ training_set' = training_set ) ]_vars

\* a feature of the wrong shape, with parameters of the right length, was
\* refused by a training set of two or more records
C2_Witness ==
    /\ ret.op = "add_model" /\ ret.outcome = "AssertionError"
    /\ parameter_set.some /\ training_set.some
    /\ Len(parameter_set.v) >= 2
    /\ Len(ret.parameters) = Len(parameter_set.v[1])
    /\ ret.feature.shape # FeatureShape(training_set.v)

\* C9: a constructor given exactly one of the two seeds, or two seeds of
\* different lengths, fails, and no instance holds one set without the other.
C9_SeedsComeInPairs ==
    /\ (ret.op = "__init__" /\ ret.outcome = "ok") =>
          /\ ret.given \notin {"parameters_only", "features_only"}
          /\ ret.given = "pair" => ret.lengths[1] = ret.lengths[2]
    /\ cls # "none" => (parameter_set.some <=> training_set.some)

(***************************************************************************)
(* Properties of the Fisher estimator (SpecFisher).                        *)
(***************************************************************************)
\* the model the fiducial index designates, as Python indexes it
FiducialModel == PyIndex(fiducial, NumModels)
\* the indices (from 0) of the other models, and the r-th of them in order
NonFiducial == (0..(NumModels - 1)) \ {FiducialModel}
NonFiducialAt(r) ==
    CHOOSE k \in NonFiducial : Cardinality({i \in NonFiducial : i < k}) = r - 1
\* the parameters (from 0) in which model k differs from the fiducial model
Differing(k) ==
    {j \in 0..(Len(parameter_set.v[1]) - 1) :
        parameter_set.v[k + 1][j + 1] # parameter_set.v[FiducialModel + 1][j + 1]}
\* a one-parameter-at-a-time design: two models or more, every other model
\* differs from the fiducial in one parameter, no two in the same one
OneAtATime ==
    /\ NumModels >= 2
    /\ PyIndexOk(fiducial, NumModels)
    /\ \A k \in NonFiducial : Cardinality(Differing(k)) = 1
    /\ \A k, l \in NonFiducial : k # l => Differing(k) # Differing(l)

\* C4: the derivatives and the varied-parameter ordering a successful fit
\* or fisher_matrix has used are those compute_derivatives returns for the
\* current parameter set, feature set and fiducial index.
C4_FitUsesCurrentDerivatives ==
    (ret.op \in {"fit", "fisher_matrix"} /\ ret.outcome = "ok") =>
        LET fresh == ComputeDerivativesResult(parameter_set, training_set, fiducial,
                                              None, None)
        IN /\ fresh.outcome = "ok"
           /\ derivatives = fresh.derivatives
           /\ varied_list = fresh.varied_list

\* C5: compute_derivatives fails exactly when the design is not a
\* one-parameter-at-a-time design.
C5_FailsExactlyOnInvalidDesign ==
    ret.op = "compute_derivatives" => (ret.outcome # "ok" <=> ~OneAtATime)

C3_BankFollowsTrainingSet ==
    (ret.op \in {"predict", "chi2"} /\ ret.outcome = "ok") =>
        /\ interpolator.some
        /\ \E u \in TrainInputs :
              LET t == TrainResult(parameter_set, training_set, u)
              IN t.outcome = "ok" /\ t.bank = interpolator.v

\* the chi-squared of one point: the quadratic form of observed - predicted
\* in the inverse covariance
RowChi2(bank, observed, covinv, point) ==
    LET d == Tup([b \in DOMAIN observed.data |->
                    RSub(R(observed.data[b]), RbfValue(bank, b, point))])
    IN RSum(Tup([x \in DOMAIN d |->
            RSum(Tup([y \in DOMAIN d |-> RMul(RMul(d[x], covinv[x][y]), d[y])]))]))

\* the call got past the checks of its arguments other than split_chunks
Chi2ArgumentsOk ==
    /\ ret.op = "chi2" /\ ret.outcome # "running"
    /\ Chi2SanityOutcome(training_set, ret.args.observed_feature,
                         ret.args.features_covariance).outcome = "ok"
    /\ interpolator.some

Chi2SplitDivides ==
    \/ IsNone(ret.args.split_chunks)
    \/ /\ ret.args.split_chunks.v > 0
       /\ NumPoints(ret.args.parameters) % ret.args.split_chunks.v = 0

\* C7: for a batch of N points and split_chunks None or a positive divisor
\* of N, with or without a pool, chi2 returns N values and value i is the
\* chi-squared of row i, whatever split_chunks is; it fails only when a
\* row cannot be interpolated.
C7_ChunkedChi2MatchesUnsplit ==
    ( /\ Chi2ArgumentsOk /\ Chi2SplitDivides
      /\ ret.args.parameters.ndim = 2
      /\ Inv(MatOf(ret.args.features_covariance.v)).some ) =>
        LET rows == ret.args.parameters.rows
            covinv == Inv(MatOf(ret.args.features_covariance.v)).v
        IN IF \A i \in DOMAIN rows : RbfOutcome(interpolator.v, rows[i]) = "ok"
           THEN /\ ret.outcome = "ok"
                /\ Len(ret.value) = Len(rows)
                /\ \A i \in DOMAIN rows :
                      ret.value[i] = RowChi2(interpolator.v, ret.args.observed_feature.v,
                                             covinv, rows[i])
           ELSE ret.outcome # "ok"

\* a pool returned four values from two chunks, not all equal
C7_Witness ==
    /\ ret.op = "chi2" /\ ret.outcome = "ok"
    /\ ret.args.split_chunks = Some(2) /\ ret.args.pool
    /\ Len(ret.value) = 4
    /\ ret.value[1] # ret.value[3]

C10_CovarianceShapeChecks ==
    /\ ( /\ ret.op = "chi2" /\ ret.outcome # "running"
         /\ ret.args.observed_feature.some /\ ret.args.features_covariance.some
         /\ training_set.some
         /\ ret.args.observed_feature.v.shape = FeatureShape(training_set.v) ) =>
            ( (ret.outcome = "AssertionError" /\ ret.line = 432)
              <=> ret.args.features_covariance.v.shape
                    # FeatureShape(training_set.v) \o FeatureShape(training_set.v) )
    /\ ( /\ ret.op = "fit" /\ training_set.some
         /\ ret.observed_feature.shape = FeatureShape(training_set.v) ) =>
            ( (ret.outcome = "AssertionError" /\ ret.line \in {247, 251})
              <=> \/ IsNone(ret.features_covariance)
                  \/ ret.features_covariance.v.shape \notin
                       { FeatureShape(training_set.v),
                         FeatureShape(training_set.v) \o FeatureShape(training_set.v) } )
    /\ (ret.op = "fisher_matrix" /\ training_set.some) =>
            /\ (ret.outcome = "AssertionError" /\ ret.line \in {290, 291})
               <=> \/ IsNone(ret.simulated_features_covariance)
                   \/ ret.simulated_features_covariance.v.shape \notin
                        { FeatureShape(training_set.v),
                          FeatureShape(training_set.v) \o FeatureShape(training_set.v) }
            /\ (ret.outcome = "ok" /\ ret.observed_features_covariance.some) =>
                  ret.observed_features_covariance.v.shape \in
                        { FeatureShape(training_set.v),
                          FeatureShape(training_set.v) \o FeatureShape(training_set.v) }

\* chi2 refused a diagonal covariance of the feature shape
C10_Witness ==
    /\ ret.op = "chi2" /\ ret.outcome = "AssertionError" /\ ret.line = 432
    /\ training_set.some
    /\ ret.args.features_covariance.v.shape = FeatureShape(training_set.v)

(***************************************************************************)
(* Properties of fisher_matrix and the fiducial index (SpecFisher).        *)
(***************************************************************************)
\* the inverse of a 2 x 2 array with a non-zero determinant, by the adjugate
Inverse2(arr) ==
    LET a == arr.data[1]
        b == arr.data[2]
        c == arr.data[3]
        d == arr.data[4]
        det == a * d - b * c
    IN << <<Rat(d, det), Rat(-b, det)>>, <<Rat(-c, det), Rat(a, det)>> >>

\* dv . w . dv^T, element by element
QuadraticForm(dv, w) ==
    Tup([i \in DOMAIN dv |-> Tup([j \in DOMAIN dv |->
        RSum(Tup([x \in DOMAIN w |->
            RSum(Tup([y \in DOMAIN w |-> RMul(RMul(dv[i][x], w[x][y]), dv[j][y])]))]))])])

\* C11: fisher_matrix with a full, invertible simulated covariance and no
\* observed covariance first computes the derivatives when there are none
\* (and fails as compute_derivatives fails), then returns
\* derivatives . covariance^-1 . derivatives^T; on the example design around
\* model 0 with the identity covariance this is [[4,0],[0,9]].
C11_FisherMatrixIsXY ==
    [][ ( /\ ret'.op = "fisher_matrix"
          /\ training_set.some
          /\ FeatureShape(training_set.v) = <<2>>
          /\ ret'.simulated_features_covariance.some
          /\ ret'.simulated_features_covariance.v.shape = <<2, 2>>
          /\ IsNone(ret'.observed_features_covariance) ) =>
        LET cov == ret'.simulated_features_covariance.v
            c == IF derivatives.some
                 THEN [outcome |-> "ok", derivatives |-> derivatives]
                 ELSE ComputeDerivativesResult(parameter_set, training_set, fiducial,
                                               varied_list, derivatives)
        IN IF c.outcome # "ok"
           THEN ret'.outcome = c.outcome /\ IsNone(derivatives')
           ELSE /\ derivatives' = c.derivatives
                /\ (cov.data[1] * cov.data[4] # cov.data[2] * cov.data[3]) =>
                     /\ ret'.outcome = "ok"
                     /\ ret'.value = QuadraticForm(c.derivatives.v, Inverse2(cov))
                     /\ ( /\ parameter_set.v = ExampleParams
                          /\ training_set.v = ExampleFeatures
                          /\ fiducial = 0 /\ IsNone(derivatives)
                          /\ cov = IdentityCov ) =>
                            ret'.value = << <<R(4), R(0)>>, <<R(0), R(9)>> >>
      ]_vars

\* fisher_matrix of the example design, not the identity covariance
C11_Witness ==
    /\ ret.op = "fisher_matrix" /\ ret.outcome = "ok"
    /\ ret.simulated_features_covariance = Some(FullCov)
    /\ IsNone(ret.observed_features_covariance)
    /\ parameter_set = Some(ExampleParams) /\ training_set = Some(ExampleFeatures)
    /\ fiducial = 0
    /\ derivatives = Some(<< <<R(2), R(0)>>, <<R(0), R(3)>> >>)
    /\ ret.value = << <<R(4), R(-6)>>, <<R(-6), R(18)>> >>

\* C12: once a FisherAnalysis holds a model the fiducial index is in
\* 0..(number of models - 1); set_fiducial(n) with n outside that range, or
\* with no model present, fails and leaves the index as it was.
C12_FiducialIndexValid ==
    [][ /\ (cls' = "Fisher" /\ parameter_set'.some) =>
               fiducial' \in 0..(Len(parameter_set'.v) - 1)
        /\ ( /\ ret'.op = "set_fiducial"
             /\ \/ IsNone(parameter_set)
                \/ ret'.n \notin 0..(Len(parameter_set.v) - 1) ) =>
               ret'.outcome # "ok" /\ fiducial' = fiducial
      ]_vars

\* C15: whenever the derivatives exist the varied-parameter list has one
\* entry per row of the derivatives and no entry twice, get_varied returns
\* that list, and after a compute_derivatives that succeeds entry i is the
\* one parameter in which the model of row i differs from the fiducial.
C15_VariedListMatchesDerivatives ==
    [][ /\ derivatives'.some =>
            /\ varied_list'.some
            /\ Len(varied_list'.v) = Len(derivatives'.v)
            /\ \A i, j \in DOMAIN varied_list'.v :
                  i # j => varied_list'.v[i] # varied_list'.v[j]
        /\ (ret'.op = "get_varied" /\ ret'.outcome = "ok") =>
            ret'.value = varied_list'.v
        /\ (ret'.op = "compute_derivatives" /\ ret'.outcome = "ok") =>
            \A i \in DOMAIN varied_list'.v :
                Differing(NonFiducialAt(i)) = {varied_list'.v[i]}
      ]_vars

(***************************************************************************)
(* Properties of the chunk evaluations of one chi2 call (SpecLikelihood).  *)
(***************************************************************************)
\* a step that evaluates one chunk of the call in progress
ChunkStep ==
    /\ call.some
    /\ Evaluated(call.v) # DOMAIN call.v.chi2_list
    /\ call' # call

\* C13: a chunk evaluation, whichever chunks were evaluated before it,
\* leaves the bank, the bin count, the training set and the call's inverse
\* covariance, observed feature, chunks and earlier results as they were,
\* and its own result is a function of its rows and of those alone.
C13_ChunkEvaluationMutatesNothing ==
    [][ ChunkStep =>
        /\ interpolator' = interpolator /\ num_bins' = num_bins
        /\ training_set' = training_set /\ parameter_set' = parameter_set
        /\ call.v.kwargs.interpolator = interpolator.v
        /\ call'.some =>
            /\ call'.v.kwargs = call.v.kwargs
            /\ call'.v.args = call.v.args
            /\ call'.v.parameter_chunks = call.v.parameter_chunks
            /\ \E n \in DOMAIN call.v.chi2_list \ Evaluated(call.v) :
                  /\ Evaluated(call'.v) = Evaluated(call.v) \cup {n}
                  /\ \A m \in Evaluated(call.v) :
                        call'.v.chi2_list[m] = call.v.chi2_list[m]
                  /\ call'.v.chi2_list[n].v =
                        Tup([i \in DOMAIN call.v.parameter_chunks[n].rows |->
                               RowChi2(interpolator.v, call.v.kwargs.observed_feature,
                                       call.v.kwargs.inverse_covariance,
                                       call.v.parameter_chunks[n].rows[i])])
      ]_vars

\* a pool has evaluated the last of four chunks and not yet the first
C13_Witness ==
    /\ call.some /\ call.v.args.pool
    /\ Len(call.v.chi2_list) = 4
    /\ call.v.chi2_list[4].some /\ call.v.chi2_list[2].some
    /\ IsNone(call.v.chi2_list[1])

(***************************************************************************)
(* Properties of several instances (SpecInstances).                        *)
(***************************************************************************)
\* what is observed through an instance: the contents of its arrays, its
\* fiducial index, its likelihood function and the bank its interpolators
\* evaluate to
Observed_Through(h, inst) ==
    [parameter_set |-> Deref(h, inst.parameter_set),
     training_set |-> Deref(h, inst.training_set),
     fiducial |-> inst.fiducial,
     likelihood_function |-> inst.likelihood_function,
     derivatives |-> Deref(h, inst.derivatives),
     interpolator |->
        IF inst.interpolator.some
        THEN Some(TrainResult(Deref(h, inst.interpolator.v.parameter_set),
                              Deref(h, inst.interpolator.v.training_set),
                              inst.interpolator.v.use_parameters).bank)
        ELSE None]

\* the array objects an instance holds
ArraysOf(inst) ==
    {x.v : x \in {y \in {inst.parameter_set, inst.training_set, inst.derivatives} : y.some}}

\* C14: two instances, also two made from the same seed arrays, hold no
\* array object in common, and add_model, set_fiducial, set_likelihood,
\* train or compute_derivatives on one leaves what is observed through the
\* other as it was.
C14_NoAliasingAcrossInstances ==
    [][ /\ \A i, j \in Instances :
              i # j => ArraysOf(instances'[i]) \cap ArraysOf(instances'[j]) = {}
        /\ \A j \in Instances :
              ( /\ ret'.op \in {"add_model", "set_fiducial", "set_likelihood", "train",
                                "compute_derivatives"}
                /\ ret'.instance # j ) =>
                  Observed_Through(heap', instances'[j]) = Observed_Through(heap, instances[j])
      ]_vars

=============================================================================
